---- MODULE Spec2Model ----
(***************************************************************************)
(* Model of src/vibration_mqtt_plotter.py: the MQTT callback on_message,   *)
(* the key handler on_key and the state they share (the userdata dict      *)
(* built in main from the objects init_plot creates).                      *)
(* PublisherSpec models the sampling loop of main in                       *)
(* src/dataLogger_MQTTpublisher.py (DB_SAMPLE_COUNT 4000 -> 4,             *)
(* MQTT_SAMPLE_COUNT 200 -> 2), BinsSpec the bin count of init_plot as a   *)
(* function of the module constants.  SubscriberSpec models the two        *)
(* threads of src/Subscriber.py, the MQTT callback on_message and the      *)
(* animation callback animate, statement by statement (BUFFER_SIZE 100 ->  *)
(* 2, the 10 samples compute_fft asks for -> 2).  LoggerSpec models        *)
(* main_loop of src/code.py with a KeyboardInterrupt at any statement.     *)
(*                                                                         *)
(* Samples are exact rationals <<numerator, denominator>> in lowest terms: *)
(* the code works in floats, the model in the reals the floats stand for.  *)
(* Time is counted in ticks of 5 ms, so MIN_REDRAW_INTERVAL (0.01 s) is 2  *)
(* ticks.  The window capacities are scaled down (RAW_PLOT_WINDOW 400 -> 3,*)
(* FFT_BUFFER_SIZE 4000 -> 2, FFT_BUFFER_SIZE_LONG 24000 -> 4, SAMPLE_RATE *)
(* 400 -> 4, FREQ_LIMIT 100 -> 1, HEATMAP_HISTORY 60 -> 20); every size    *)
(* derived from them is computed as the code computes it.                  *)
(*                                                                         *)
(* A spectrum is not computed numerically: 2*|rfft(block)|/N truncated to  *)
(* a number of bins is the record [input, scale, bins], all-zero when the  *)
(* block is all-zero.                                                      *)
(***************************************************************************)
EXTENDS Integers, Sequences, FiniteSets, TLC

\* ---- bounds of the model ------------------------------------------------
MaxLen == 2        \* longest axis list of a message
MaxTime == 4       \* last clock tick at which a message is delivered
MaxSteadyTime == 8 \* the same, when every message is a well-formed batch
MaxReads == 6      \* sensor readings the publisher takes
MaxPending == 4    \* rows of an open transaction above which commits succeed
MaxSamples == 3    \* sensor readings main_loop of code.py takes
MaxRows == 6       \* rows, committed or not, the acceleration table takes

\* ---- module constants (src/vibration_mqtt_plotter.py:24-31), scaled -----
RAW_PLOT_WINDOW == 3
FFT_BUFFER_SIZE == 2
FFT_BUFFER_SIZE_LONG == 4
SAMPLE_RATE == 4
MIN_REDRAW_INTERVAL == 2
HEATMAP_HISTORY == 20
HEATMAP_STEPS == HEATMAP_HISTORY \div 10
FREQ_LIMIT == 1

\* ---- module constants (src/dataLogger_MQTTpublisher.py:26, 32), scaled --
DB_SAMPLE_COUNT == 4
MQTT_SAMPLE_COUNT == 2

Axis == {"x", "y", "z"}

\* ---- exact arithmetic on samples ----------------------------------------
Abs(i) == IF i < 0 THEN -i ELSE i

Min(a, b) == IF a <= b THEN a ELSE b

RECURSIVE GCD(_, _)
GCD(a, b) == IF b = 0 THEN a ELSE GCD(b, a % b)

\* the rational n/d (d > 0) in lowest terms
Rat(n, d) == LET g == GCD(Abs(n), d) IN <<n \div g, d \div g>>

\* np.array(values, dtype=float): every number as a float
AsFloat(values) == [i \in 1..Len(values) |-> Rat(values[i], 1)]

RECURSIVE SumSeq(_)
SumSeq(s) == IF s = <<>> THEN 0 ELSE Head(s) + SumSeq(Tail(s))

\* np.mean of a non-empty list of numbers
Mean(values) == Rat(SumSeq(values), Len(values))

\* float subtraction a - b
Sub(a, b) == Rat(a[1] * b[2] - b[1] * a[2], a[2] * b[2])

Zero == Rat(0, 1)

\* np.zeros_like(values)
ZerosLike(values) == [i \in 1..Len(values) |-> Zero]

\* ---- collections.deque(maxlen=...) --------------------------------------
\* faulty variant (C9): a deque without maxlen
DequeAppendUnbounded(dq, v, maxlen) == Append(dq, v)

\* deque.append: when the deque is full the oldest element is dropped
DequeAppend(dq, v, maxlen) ==
    IF Len(dq) >= maxlen THEN Tail(dq) \o <<v>> ELSE Append(dq, v)

RECURSIVE DequeExtend(_, _, _)
DequeExtend(dq, vs, maxlen) ==
    IF vs = <<>> THEN dq
    ELSE DequeExtend(DequeAppend(dq, Head(vs), maxlen), Tail(vs), maxlen)

\* ---- spectra ------------------------------------------------------------
\* faulty variant (C17): the bin at the frequency limit is left out
FreqBinsOfExclusive(limit, size, rate) == (limit * size) \div rate

\* int(limit * size / rate) + 1: lines 58, 68, 274 and 327 with the module
\* constants as arguments; int() of a quotient that is not negative rounds
\* down
FreqBinsOf(limit, size, rate) == (limit * size) \div rate + 1

\* len(np.fft.rfft(block)) for a block of size samples
RfftLen(size) == size \div 2 + 1

\* len(amp[:freq_bins]) for amp of length n: a slice stops where the array
\* ends
SliceLen(n, freq_bins) == Min(n, freq_bins)

\* int(FREQ_LIMIT * n / SAMPLE_RATE) + 1
FreqBins(n) == FreqBinsOf(FREQ_LIMIT, n, SAMPLE_RATE)

\* len(np.fft.rfftfreq(n, d)[:FreqBins(n)]), and of rfft(block)[:FreqBins(n)]
SpectrumLen(n) == SliceLen(RfftLen(n), FreqBins(n))

\* np.zeros(bins)
ZeroSpectrum(bins) == [input |-> <<>>, scale |-> 1, bins |-> bins]

\* faulty variant (C22): the amplitudes are not cut to the frequency limit
AmplitudeUncut(block, n) ==
    IF \A i \in 1..Len(block) : block[i] = Zero
    THEN ZeroSpectrum(Len(block) \div 2 + 1)
    ELSE [input |-> block, scale |-> n, bins |-> Len(block) \div 2 + 1]

\* (2 * np.abs(np.fft.rfft(block)) / n)[:FreqBins(n)]
Amplitude(block, n) ==
    IF \A i \in 1..Len(block) : block[i] = Zero
    THEN ZeroSpectrum(Min(FreqBins(n), Len(block) \div 2 + 1))
    ELSE [input |-> block, scale |-> n,
          bins |-> Min(FreqBins(n), Len(block) \div 2 + 1)]

\* ---- state ---------------------------------------------------------------
VARIABLES
    userdata,     \* the user_data dict of main: buffers, offsets, baseline, lines
    clock,        \* the value the latest call of time.time() returned
    pc,           \* "idle", or "flush" while on_message is in canvas.flush_events()
    handler,      \* the callback that ran in the latest step
    msg,          \* the message of the latest on_message call
    key,          \* the key of the latest on_key call
    log,          \* the logging record the latest step emitted
    sample_ids,   \* history: arrival numbers of the samples in the FFT buffers
    fft_inputs,   \* history: the blocks of arrival numbers each spectrum was fed
    n_samples,    \* history: number of samples appended to the FFT buffers
    rejected,     \* history: a message was turned away since the last line 356
    pushed,       \* history: the 10s and 60s spectra computed, oldest first
    sizes,        \* FREQ_LIMIT, the FFT buffer size and SAMPLE_RATE in use
    bins,         \* freq_bins and the length of a spectrum cut to freq_bins
    db_buffer,    \* publisher: the samples (x, y, z) not yet logged
    mqtt_buffer,  \* publisher: the samples (x, y, z) not yet put in a message
    database,     \* publisher: rows committed to vibration_readings, and rows
                  \* inserted in the transaction that is still open
    published,    \* publisher: the messages client.publish accepted, in order
    readings,     \* history: the samples the sensor delivered, in order
    timestamps,   \* subscriber: the deque of timestamps
    x_values,     \* subscriber: the deque of x readings
    y_values,     \* subscriber: the deque of y readings
    z_values,     \* subscriber: the deque of z readings
    net_pc,       \* subscriber: the line on_message is about to run, or "idle"
    net_data,     \* subscriber: the dict on_message decoded
    anim_pc,      \* subscriber: the line animate is about to run, or "idle"
    xdata,        \* subscriber: the local xdata of animate
    lines,        \* subscriber: the data of the six Line2D artists
    main_buffer,  \* logger: the list buffer of main_loop
    acceleration, \* logger: rows committed to the table, and rows inserted
                  \* in the transaction that is still open
    main_sent,    \* logger: the payloads publish accepted, in order
    main_pc,      \* logger: the statement main_loop is about to run
    taken         \* history: the samples main_loop appended to buffer

plotter_vars == <<userdata, clock, pc, handler, msg, key, log,
                  sample_ids, fft_inputs, n_samples, rejected, pushed>>

bins_vars == <<sizes, bins>>

publisher_vars == <<db_buffer, mqtt_buffer, database, published, readings>>

subscriber_vars == <<timestamps, x_values, y_values, z_values, net_pc,
                     net_data, anim_pc, xdata, lines>>

logger_vars == <<main_buffer, acceleration, main_sent, main_pc, taken>>

vars == <<plotter_vars, bins_vars, publisher_vars, subscriber_vars,
          logger_vars>>

\* ---- messages -----------------------------------------------------------
\* A payload is described by what on_message asks of it: whether it decodes
\* as JSON, which of the three keys it has, which of their values are lists,
\* whether every list element is a number, and the numbers.
Payload(json, keys, lists, numeric, values) ==
    [json |-> json, keys |-> keys, lists |-> lists, numeric |-> numeric,
     values |-> values]

NoLog == [level |-> "none", text |-> ""]

\* ---- on_key (lines 179-201) ---------------------------------------------
\* faulty variant (C13): a space key pressed too early marks the baseline
\* as ready
on_key_MarkingReady(ud, k) ==
    IF k = " "
    THEN IF ud.baseline_ready
         THEN [userdata |-> [ud EXCEPT !.line_baseline = ud.baseline],
               log |-> [level |-> "info",
                        text |-> "Baseline updated with latest 60s FFT"]]
         ELSE [userdata |-> [ud EXCEPT !.baseline_ready = TRUE],
               log |-> [level |-> "warning",
                        text |-> "No 60s FFT available for baseline"]]
    ELSE [userdata |-> ud, log |-> NoLog]

on_key(ud, k) ==
    IF k = " "
    THEN IF ud.baseline_ready
         THEN [userdata |-> [ud EXCEPT !.line_baseline = ud.baseline],
               log |-> [level |-> "info",
                        text |-> "Baseline updated with latest 60s FFT"]]
         ELSE [userdata |-> ud,
               log |-> [level |-> "warning",
                        text |-> "No 60s FFT available for baseline"]]
    ELSE [userdata |-> ud, log |-> NoLog]

\* ---- on_message (lines 203-366) -----------------------------------------
\* faulty variant (C5): a message exactly one interval later is turned away
TooFrequentInclusive(ud, start_time) ==
    start_time - ud.last_redraw <= MIN_REDRAW_INTERVAL

\* faulty variant (C6): no gate
NeverTooFrequent(ud, start_time) == FALSE

\* line 207: the redraw is too frequent
TooFrequent(ud, start_time) ==
    start_time - ud.last_redraw < MIN_REDRAW_INTERVAL

\* line 211
HasKeys(m) == \A k \in Axis : k \in m.keys

\* lines 212-214
AreLists(m) == \A k \in Axis : k \in m.lists

\* line 216
AllNumeric(m) == m.numeric

\* line 223
NonEmpty(m) == \A a \in Axis : Len(m.values[a]) > 0

\* faulty variant (C4): the offsets are the first readings, not the means
CalibrateFromFirstSample(ud, m) ==
    [ud EXCEPT !.offset = [a \in Axis |-> Rat(Head(m.values[a]), 1)],
               !.offsets_calculated = TRUE]

\* lines 224-230: the offsets are the means of this message
Calibrate(ud, m) ==
    [ud EXCEPT !.offset = [a \in Axis |-> Mean(m.values[a])],
               !.offsets_calculated = TRUE]

\* faulty variant (C3): the first message is not plotted as zeros
ZeroedMinusOffset(ud, m) ==
    [a \in Axis |->
        [i \in 1..Len(m.values[a]) |->
            Sub(AsFloat(m.values[a])[i], ud.offset[a])]]

\* lines 233-235 and 241-243: x_zeroed, y_zeroed, z_zeroed
Zeroed(ud, m) ==
    IF ~ud.offsets_calculated
    THEN [a \in Axis |-> ZerosLike(AsFloat(m.values[a]))]
    ELSE [a \in Axis |->
            [i \in 1..Len(m.values[a]) |->
                Sub(AsFloat(m.values[a])[i], ud.offset[a])]]

\* lines 246-251
UpdateRaw(ud, zeroed) ==
    [ud EXCEPT !.data =
        [a \in Axis |-> DequeExtend(ud.data[a], zeroed[a], RAW_PLOT_WINDOW)]]

\* zip(x_zeroed, y_zeroed, z_zeroed) stops with the shortest list
ZipLen(zeroed) ==
    Min(Len(zeroed["x"]), Min(Len(zeroed["y"]), Len(zeroed["z"])))

\* faulty variant (C23): every axis appends its own list, without zip
UpdateFFTPerAxis(ud, zeroed) ==
    [ud EXCEPT
        !.fft_buffer = [a \in Axis |->
            DequeExtend(ud.fft_buffer[a], zeroed[a], FFT_BUFFER_SIZE)],
        !.fft_buffer_long = [a \in Axis |->
            DequeExtend(ud.fft_buffer_long[a], zeroed[a],
                        FFT_BUFFER_SIZE_LONG)]]

\* faulty variant (C20): the samples do not reach the 60s buffers
UpdateFFTShortOnly(ud, zeroed) ==
    LET n == ZipLen(zeroed) IN
    [ud EXCEPT
        !.fft_buffer = [a \in Axis |->
            DequeExtend(ud.fft_buffer[a], SubSeq(zeroed[a], 1, n),
                        FFT_BUFFER_SIZE)]]

\* lines 254-260
UpdateFFT(ud, zeroed) ==
    LET n == ZipLen(zeroed) IN
    [ud EXCEPT
        !.fft_buffer = [a \in Axis |->
            DequeExtend(ud.fft_buffer[a], SubSeq(zeroed[a], 1, n),
                        FFT_BUFFER_SIZE)],
        !.fft_buffer_long = [a \in Axis |->
            DequeExtend(ud.fft_buffer_long[a], SubSeq(zeroed[a], 1, n),
                        FFT_BUFFER_SIZE_LONG)]]

\* faulty variant (C16): the 10s spectrum waits for one sample more
ShortFullLate(ud) == Len(ud.fft_buffer["x"]) > FFT_BUFFER_SIZE

\* line 263
ShortFull(ud) == Len(ud.fft_buffer["x"]) >= FFT_BUFFER_SIZE

\* faulty variant (C11): the newest row is replaced, the oldest is kept
RollInOverNewest(heatmap, amp) ==
    SubSeq(heatmap, 1, Len(heatmap) - 1) \o <<amp>>

\* np.roll(heatmap, -1, axis=0) followed by heatmap[-1, :] = amp
RollIn(heatmap, amp) == Tail(heatmap) \o <<amp>>

\* faulty variant (C21): computing the 10s spectrum also empties the raw
\* deques
ShortFFTDrainingRaw(ud) ==
    IF ShortFull(ud)
    THEN LET amp == [a \in Axis |->
                        Amplitude(ud.fft_buffer[a], FFT_BUFFER_SIZE)]
         IN [ud EXCEPT
                !.line_fft = amp,
                !.heatmap_data = [a \in Axis |->
                                    RollIn(ud.heatmap_data[a], amp[a])],
                !.fft_buffer = [a \in Axis |-> <<>>],
                !.data = [a \in Axis |-> <<>>]]
    ELSE ud

\* faulty variant (C10): the 10s buffers are not flushed
ShortFFTSliding(ud) ==
    IF ShortFull(ud)
    THEN LET amp == [a \in Axis |->
                        Amplitude(ud.fft_buffer[a], FFT_BUFFER_SIZE)]
         IN [ud EXCEPT
                !.line_fft = amp,
                !.heatmap_data = [a \in Axis |->
                                    RollIn(ud.heatmap_data[a], amp[a])]]
    ELSE ud

\* lines 263-313
ShortFFT(ud) ==
    IF ShortFull(ud)
    THEN LET amp == [a \in Axis |->
                        Amplitude(ud.fft_buffer[a], FFT_BUFFER_SIZE)]
         IN [ud EXCEPT
                !.line_fft = amp,
                !.heatmap_data = [a \in Axis |->
                                    RollIn(ud.heatmap_data[a], amp[a])],
                !.fft_buffer = [a \in Axis |-> <<>>]]
    ELSE ud

\* faulty variant (C25): the 60s buffer counts as full one sample late
LongFullLate(ud) == Len(ud.fft_buffer_long["x"]) > FFT_BUFFER_SIZE_LONG

\* line 316
LongFull(ud) == Len(ud.fft_buffer_long["x"]) >= FFT_BUFFER_SIZE_LONG

\* faulty variant (C15): a completed 60s spectrum is drawn as baseline at once
LongFFTCapturing(ud) ==
    IF LongFull(ud)
    THEN LET amp == [a \in Axis |->
                        Amplitude(ud.fft_buffer_long[a], FFT_BUFFER_SIZE_LONG)]
         IN [ud EXCEPT
                !.baseline = amp,
                !.baseline_ready = TRUE,
                !.line_fft_long = amp,
                !.line_baseline = amp,
                !.fft_buffer_long = [a \in Axis |-> <<>>]]
    ELSE ud

\* faulty variant (C14): only the first 60s spectrum is stored for baseline
LongFFTKeepingFirst(ud) ==
    IF LongFull(ud)
    THEN LET amp == [a \in Axis |->
                        Amplitude(ud.fft_buffer_long[a], FFT_BUFFER_SIZE_LONG)]
         IN [ud EXCEPT
                !.baseline = IF ud.baseline_ready THEN ud.baseline ELSE amp,
                !.baseline_ready = TRUE,
                !.line_fft_long = amp,
                !.fft_buffer_long = [a \in Axis |-> <<>>]]
    ELSE ud

\* faulty variant (C12): the 60s spectrum is stored without the flag
LongFFTWithoutFlag(ud) ==
    IF LongFull(ud)
    THEN LET amp == [a \in Axis |->
                        Amplitude(ud.fft_buffer_long[a], FFT_BUFFER_SIZE_LONG)]
         IN [ud EXCEPT
                !.baseline = amp,
                !.line_fft_long = amp,
                !.fft_buffer_long = [a \in Axis |-> <<>>]]
    ELSE ud

\* lines 316-346
LongFFT(ud) ==
    IF LongFull(ud)
    THEN LET amp == [a \in Axis |->
                        Amplitude(ud.fft_buffer_long[a], FFT_BUFFER_SIZE_LONG)]
         IN [ud EXCEPT
                !.baseline = amp,
                !.baseline_ready = TRUE,
                !.line_fft_long = amp,
                !.fft_buffer_long = [a \in Axis |-> <<>>]]
    ELSE ud

\* lines 349-351
DrawRaw(ud) == [ud EXCEPT !.line_raw = ud.data]

\* faulty variant (C2): every non-empty message recomputes the offsets
ProcessRecalibrating(ud, m) ==
    LET cal == IF NonEmpty(m) THEN Calibrate(ud, m) ELSE ud
        zeroed == Zeroed(ud, m)
    IN DrawRaw(LongFFT(ShortFFT(UpdateFFT(UpdateRaw(cal, zeroed), zeroed))))

\* lines 221-354 for a message that passed the three checks
Process(ud, m) ==
    LET cal == IF ud.offsets_calculated THEN ud ELSE Calibrate(ud, m)
        zeroed == Zeroed(ud, m)
    IN DrawRaw(LongFFT(ShortFFT(UpdateFFT(UpdateRaw(cal, zeroed), zeroed))))

Warning(text) == [level |-> "warning", text |-> text]

\* faulty variant (C8): a message that is turned away empties the FFT buffers
RejectResettingBuffers(ud, record) ==
    [userdata |-> [ud EXCEPT !.fft_buffer = [a \in Axis |-> <<>>],
                             !.fft_buffer_long = [a \in Axis |-> <<>>]],
     pc |-> "idle", log |-> record]

\* lines 208, 238 and 357-366: the call ends, with at most a logging record
Reject(ud, record) == [userdata |-> ud, pc |-> "idle", log |-> record]

\* faulty variant (C18): GUI events are handled once the samples are in the
\* buffers, before the spectra are computed and the buffers cleared
AcceptFlushingEarly(ud, m) ==
    LET cal == IF ud.offsets_calculated THEN ud ELSE Calibrate(ud, m)
        zeroed == Zeroed(ud, m)
    IN [userdata |-> UpdateFFT(UpdateRaw(cal, zeroed), zeroed),
        pc |-> "flush",
        log |-> IF ud.offsets_calculated THEN NoLog
                ELSE [level |-> "info", text |-> "Offsets calculated"]]

\* lines 221-354: the call reaches canvas.flush_events() (line 355)
Accept(ud, m) ==
    [userdata |-> Process(ud, m), pc |-> "flush",
     log |-> IF ud.offsets_calculated THEN NoLog
             ELSE [level |-> "info", text |-> "Offsets calculated"]]

\* lines 210-238 and 357-366: the checks of a message that passed the gate
Checked(ud, m) ==
    IF ~m.json
    THEN Reject(ud, [level |-> "error", text |-> "Invalid JSON received"])
    ELSE IF ~HasKeys(m)
    THEN Reject(ud, Warning("Message missing required keys"))
    ELSE IF ~AreLists(m)
    THEN Reject(ud, Warning("Message values are not lists"))
    ELSE IF ~AllNumeric(m)
    THEN Reject(ud, Warning("Non-numeric values found in data"))
    ELSE IF ~ud.offsets_calculated /\ ~NonEmpty(m)
    THEN Reject(ud, Warning("Empty values in first message"))
    ELSE Accept(ud, m)

\* faulty variant (C7): the checks come before the gate
on_message_ChecksFirst(ud, m, start_time) ==
    IF Checked(ud, m).pc = "idle" /\ Checked(ud, m).log # NoLog
    THEN Checked(ud, m)
    ELSE IF TooFrequent(ud, start_time) THEN Reject(ud, NoLog)
    ELSE Checked(ud, m)

\* lines 205-366: the dict after the call, the logging record it emitted and
\* whether the call reached canvas.flush_events() (line 355)
on_message(ud, m, start_time) ==
    IF TooFrequent(ud, start_time)
    THEN Reject(ud, NoLog)
    ELSE Checked(ud, m)

\* line 356, after canvas.flush_events() has returned
Redrawn(ud, start_time) == [ud EXCEPT !.last_redraw = start_time]

\* ---- the messages and keys the environment delivers ----------------------
Values == {1, 2}

\* the lists of n x readings the environment sends: a constant level or a
\* rising ramp
Lists(n) ==
    {[i \in 1..n |-> v] : v \in Values} \cup {[i \in 1..n |-> i]}

\* y_values and z_values of n readings: a falling ramp and a constant
Ramp(n) == [i \in 1..n |-> 0 - i]
Flat(n) == [i \in 1..n |-> 0]

\* the lengths of y_values sent along with n x_values and n z_values: the
\* same length, or one shorter
Shapes(n) == {n} \cup (IF n > 0 THEN {n - 1} ELSE {})

\* messages whose three values are lists of numbers
Batches ==
    {Payload(TRUE, Axis, Axis, TRUE,
             [a \in Axis |-> CASE a = "x" -> b[1]
                               [] a = "y" -> Ramp(b[2])
                               [] a = "z" -> Flat(Len(b[1]))]) :
        b \in UNION {{<<xs, ly>> : ly \in Shapes(n), xs \in Lists(n)} :
                        n \in 0..MaxLen}}

NoValues == [a \in Axis |-> <<>>]

\* messages one of the checks of on_message turns away
Malformed ==
    {Payload(FALSE, {}, {}, FALSE, NoValues),
     Payload(TRUE, {"x", "y"}, {"x", "y"}, TRUE, NoValues),
     Payload(TRUE, Axis, {"y", "z"}, TRUE, NoValues),
     Payload(TRUE, Axis, Axis, FALSE, NoValues)}

Messages == Batches \cup Malformed

Keys == {" ", "a"}

\* the times at which the next message can be delivered
Times == {t \in clock..(clock + MIN_REDRAW_INTERVAL) : t <= MaxTime}

\* ---- initial state: init_plot (lines 42-68) and main (lines 383-432) -----
InitUserdata ==
    [data |-> [a \in Axis |-> [i \in 1..RAW_PLOT_WINDOW |-> Zero]],
     fft_buffer |-> [a \in Axis |-> <<>>],
     fft_buffer_long |-> [a \in Axis |-> <<>>],
     heatmap_data |-> [a \in Axis |->
        [i \in 1..HEATMAP_STEPS |-> ZeroSpectrum(FreqBins(FFT_BUFFER_SIZE))]],
     line_raw |-> [a \in Axis |-> [i \in 1..RAW_PLOT_WINDOW |-> Zero]],
     line_fft |-> [a \in Axis |-> ZeroSpectrum(SpectrumLen(FFT_BUFFER_SIZE))],
     line_fft_long |->
        [a \in Axis |-> ZeroSpectrum(SpectrumLen(FFT_BUFFER_SIZE_LONG))],
     line_baseline |->
        [a \in Axis |-> ZeroSpectrum(SpectrumLen(FFT_BUFFER_SIZE_LONG))],
     last_redraw |-> 0,
     offset |-> [a \in Axis |-> Zero],
     offsets_calculated |-> FALSE,
     baseline |->
        [a \in Axis |-> ZeroSpectrum(SpectrumLen(FFT_BUFFER_SIZE_LONG))],
     baseline_ready |-> FALSE]

\* dataLogger_MQTTpublisher.main, lines 84-91: empty buffers, and a table
\* with no open transaction
PublisherStart ==
    /\ db_buffer = <<>>
    /\ mqtt_buffer = <<>>
    /\ database = [rows |-> <<>>, pending |-> <<>>]
    /\ published = <<>>
    /\ readings = <<>>

\* ---- src/Subscriber.py: the state at client.loop_start() -----------------
BUFFER_SIZE == 2

\* the data of a Line2D: plot([], []) at lines 56-62
NoData == [xs |-> <<>>, ys |-> <<>>]

TimeLines == {"xtime", "ytime", "ztime"}
FftLines == {"xfft", "yfft", "zfft"}

\* lines 24-27 and 56-62
SubscriberStart ==
    /\ timestamps = <<>>
    /\ x_values = <<>>
    /\ y_values = <<>>
    /\ z_values = <<>>
    /\ net_pc = "idle"
    /\ net_data = <<>>
    /\ anim_pc = "idle"
    /\ xdata = <<>>
    /\ lines = [l \in TimeLines \cup FftLines |-> NoData]

\* ---- src/code.py: main_loop before the while loop (lines 69-74) ----------
LoggerStart ==
    /\ main_buffer = <<>>
    /\ acceleration = [rows |-> <<>>, pending |-> <<>>]
    /\ main_sent = <<>>
    /\ main_pc = "read"
    /\ taken = <<>>

\* lines 58 and 67 (68 for the 60s size): freq_bins and len(freqs)
BinsOf(s) ==
    [freq_bins |-> FreqBinsOf(s.limit, s.size, s.rate),
     kept |-> SliceLen(RfftLen(s.size), FreqBinsOf(s.limit, s.size, s.rate))]

Init ==
    /\ userdata = InitUserdata
    /\ clock = 0
    /\ pc = "idle"
    /\ handler = "main"
    /\ msg = Payload(FALSE, {}, {}, FALSE, NoValues)
    /\ key = ""
    /\ log = NoLog
    /\ sample_ids = [short |-> <<>>, long |-> <<>>]
    /\ fft_inputs = [short |-> <<>>, long |-> <<>>]
    /\ n_samples = 0
    /\ rejected = FALSE
    /\ pushed = [short |-> <<>>, long |-> <<>>]
    /\ sizes = [limit |-> FREQ_LIMIT, size |-> FFT_BUFFER_SIZE,
                rate |-> SAMPLE_RATE]
    /\ bins = BinsOf(sizes)
    /\ PublisherStart
    /\ SubscriberStart
    /\ LoggerStart

\* ---- history of the samples the FFT buffers received ---------------------
\* the arrival numbers of n new samples
NewIds(n) == [i \in 1..n |-> n_samples + i]

\* the numbers a buffer of capacity maxlen holds once n samples are appended
IdsAfter(ids, n, maxlen) == DequeExtend(ids, NewIds(n), maxlen)

\* ---- actions ------------------------------------------------------------
\* the MQTT loop calls on_message(client, userdata, msg) at time start_time
OnMessage(m, start_time) ==
    /\ pc = "idle"
    /\ \E res \in {on_message(userdata, m, start_time)} :
        LET n == IF res.pc = "flush" THEN ZipLen(m.values) ELSE 0
            short == IdsAfter(sample_ids.short, n, FFT_BUFFER_SIZE)
            long == IdsAfter(sample_ids.long, n, FFT_BUFFER_SIZE_LONG)
            short_done == res.pc = "flush" /\ Len(short) >= FFT_BUFFER_SIZE
            long_done ==
                res.pc = "flush" /\ Len(long) >= FFT_BUFFER_SIZE_LONG
        IN /\ clock' = start_time
           /\ msg' = m
           /\ handler' = "on_message"
           /\ userdata' = res.userdata
           /\ log' = res.log
           /\ pc' = res.pc
           /\ n_samples' = n_samples + n
           /\ sample_ids' = [short |-> IF short_done THEN <<>> ELSE short,
                             long |-> IF long_done THEN <<>> ELSE long]
           /\ fft_inputs' =
                [short |-> IF short_done
                           THEN Append(fft_inputs.short, short)
                           ELSE fft_inputs.short,
                 long |-> IF long_done THEN Append(fft_inputs.long, long)
                          ELSE fft_inputs.long]
           /\ rejected' = (rejected \/ res.pc = "idle")
           /\ pushed' =
                [short |-> IF short_done
                           THEN Append(pushed.short, res.userdata.line_fft)
                           ELSE pushed.short,
                 long |-> IF long_done
                          THEN Append(pushed.long,
                                      res.userdata.line_fft_long)
                          ELSE pushed.long]
           /\ UNCHANGED <<key, bins_vars, publisher_vars,
                 subscriber_vars, logger_vars>>

\* canvas.flush_events() (line 355, and line 198 of a running on_key) hands a
\* pending key press to on_key
OnKey(k) ==
    LET res == on_key(userdata, k)
    IN /\ pc = "flush"
       /\ key' = k
       /\ handler' = "on_key"
       /\ userdata' = res.userdata
       /\ log' = res.log
       /\ UNCHANGED <<clock, pc, msg, sample_ids, fft_inputs, n_samples,
                      rejected, pushed, bins_vars, publisher_vars,
                 subscriber_vars, logger_vars>>

\* canvas.flush_events() returns and on_message finishes with line 356
OnMessageReturn ==
    /\ pc = "flush"
    /\ pc' = "idle"
    /\ handler' = "return"
    /\ userdata' = Redrawn(userdata, clock)
    /\ log' = NoLog
    /\ rejected' = FALSE
    /\ UNCHANGED <<clock, msg, key, sample_ids, fft_inputs, n_samples,
                   pushed, bins_vars, publisher_vars,
                 subscriber_vars, logger_vars>>

Next ==
    \/ \E m \in Messages, t \in Times : OnMessage(m, t)
    \/ \E k \in Keys : OnKey(k)
    \/ OnMessageReturn

Spec == Init /\ [][Next]_vars

\* ---- a publisher that keeps the pace -------------------------------------
\* n readings of a sensor at rest: x, y and z at constant levels
Still(n) ==
    Payload(TRUE, Axis, Axis, TRUE,
            [a \in Axis |-> [i \in 1..n |-> CASE a = "x" -> 2
                                               [] a = "y" -> 0 - 1
                                               [] a = "z" -> 0]])

\* well-formed batches: three non-empty lists of numbers of one length
SteadyMessages ==
    {m \in Batches : /\ Len(m.values["x"]) > 0
                     /\ Len(m.values["y"]) = Len(m.values["x"])}
        \cup {Still(n) : n \in 1..MaxLen}

\* every message is a well-formed batch that arrives MIN_REDRAW_INTERVAL
\* after the previous one, so line 207 lets every message through
SteadyNext ==
    \/ \E m \in SteadyMessages :
          /\ clock + MIN_REDRAW_INTERVAL <= MaxSteadyTime
          /\ OnMessage(m, clock + MIN_REDRAW_INTERVAL)
    \/ \E k \in Keys : OnKey(k)
    \/ OnMessageReturn

SteadySpec == Init /\ [][SteadyNext]_vars

\* ---- a sensor at rest ----------------------------------------------------
\* every message holds readings of a sensor at rest; messages arrive at any
\* time, so line 207 turns some of them away
RestNext ==
    \/ \E n \in 1..MaxLen :
          \E t \in clock..(clock + MIN_REDRAW_INTERVAL) :
              t <= MaxSteadyTime /\ OnMessage(Still(n), t)
    \/ \E k \in Keys : OnKey(k)
    \/ OnMessageReturn

RestSpec == Init /\ [][RestNext]_vars

\* ---- a publisher with a fixed batch length -------------------------------
\* the well-formed batches of n samples per axis
BatchesOf(n) == {m \in SteadyMessages : Len(m.values["x"]) = n}

\* every message is a well-formed batch; from the first batch that is let
\* through on, all batches have one length, which divides FFT_BUFFER_SIZE;
\* messages arrive at any time, so line 207 turns some of them away
PacedNext ==
    \/ \E n \in 1..MaxLen :
          /\ FFT_BUFFER_SIZE % n = 0
          /\ n_samples = 0 \/ n = Len(msg.values["x"])
          /\ \E m \in BatchesOf(n) :
                \E t \in clock..(clock + MIN_REDRAW_INTERVAL) :
                    t <= MaxSteadyTime /\ OnMessage(m, t)
    \/ \E k \in Keys : OnKey(k)
    \/ OnMessageReturn

PacedSpec == Init /\ [][PacedNext]_vars

\* ---- src/dataLogger_MQTTpublisher.py: the loop of main (lines 107-157) ----
\* what read_acc_x, read_acc_y and read_acc_z return for one sample
Readings == {<<x, 5, 9>> : x \in {0, 1}}

\* no sample is due yet (line 111), the sensor raises (line 120), or it
\* delivers a sample
SensorOutcomes ==
    {[result |-> r, sample |-> <<>>] : r \in {"wait", "error"}}
        \cup {[result |-> "sample", sample |-> s] : s \in Readings}

\* executemany and commit succeed, executemany raises sqlite3.Error before a
\* row is inserted, or commit raises it and leaves the transaction open
DbOutcomes == {"ok", "insert_error", "commit_error"}

\* client.publish accepts the message, or it raises or returns an error code
PublishOutcomes == {"ok", "failed"}

\* buffer[:n] and buffer[n:]
Take(buffer, n) == SubSeq(buffer, 1, Min(n, Len(buffer)))
Drop(buffer, n) == SubSeq(buffer, n + 1, Len(buffer))

\* lines 142-144: [x for x, _, _ in data], [y for _, y, _ in data], ...
Column(data, a) ==
    [k \in 1..Len(data) |-> data[k][CASE a = "x" -> 1
                                      [] a = "y" -> 2
                                      [] a = "z" -> 3]]

\* lines 145-146: json.dumps of the dict of the three lists, as on_message
\* will find it
Message(data_to_publish) ==
    Payload(TRUE, Axis, Axis, TRUE,
            [a \in Axis |-> Column(data_to_publish, a)])

\* lines 116-117 for one buffer
Sampled(buffer, sensor) ==
    IF sensor.result = "sample" THEN Append(buffer, sensor.sample)
    ELSE buffer

\* faulty variant (C26): the block is removed although the insert failed
LogToDatabaseDropping(buffer, db, outcome) ==
    IF Len(buffer) >= DB_SAMPLE_COUNT
    THEN LET data_to_insert == Take(buffer, DB_SAMPLE_COUNT) IN
         CASE outcome = "ok" ->
                [db_buffer |-> Drop(buffer, DB_SAMPLE_COUNT),
                 database |-> [rows |-> db.rows \o db.pending
                                          \o data_to_insert,
                               pending |-> <<>>]]
           [] outcome = "insert_error" ->
                [db_buffer |-> Drop(buffer, DB_SAMPLE_COUNT), database |-> db]
           [] outcome = "commit_error" ->
                [db_buffer |-> buffer,
                 database |-> [rows |-> db.rows,
                               pending |-> db.pending \o data_to_insert]]
    ELSE [db_buffer |-> buffer, database |-> db]

\* lines 126-137
LogToDatabase(buffer, db, outcome) ==
    IF Len(buffer) >= DB_SAMPLE_COUNT
    THEN LET data_to_insert == Take(buffer, DB_SAMPLE_COUNT) IN
         CASE outcome = "ok" ->
                [db_buffer |-> Drop(buffer, DB_SAMPLE_COUNT),
                 database |-> [rows |-> db.rows \o db.pending
                                          \o data_to_insert,
                               pending |-> <<>>]]
           [] outcome = "insert_error" ->
                [db_buffer |-> buffer, database |-> db]
           [] outcome = "commit_error" ->
                [db_buffer |-> buffer,
                 database |-> [rows |-> db.rows,
                               pending |-> db.pending \o data_to_insert]]
    ELSE [db_buffer |-> buffer, database |-> db]

\* lines 140-153
PublishToMqtt(buffer, sent, outcome) ==
    IF Len(buffer) >= MQTT_SAMPLE_COUNT
    THEN [mqtt_buffer |-> Drop(buffer, MQTT_SAMPLE_COUNT),
          published |->
            IF outcome = "ok"
            THEN Append(sent, Message(Take(buffer, MQTT_SAMPLE_COUNT)))
            ELSE sent]
    ELSE [mqtt_buffer |-> buffer, published |-> sent]

\* one turn of the while loop (lines 108-157)
Loop(sensor, db, pub) ==
    LET logged == LogToDatabase(Sampled(db_buffer, sensor), database, db)
        sent == PublishToMqtt(Sampled(mqtt_buffer, sensor), published, pub)
    IN /\ sensor.result = "sample" => Len(readings) < MaxReads
       /\ db = "commit_error" => Len(database.pending) < MaxPending
       /\ IF sensor.result = "error"
          THEN UNCHANGED publisher_vars
          ELSE /\ readings' = Sampled(readings, sensor)
               /\ db_buffer' = logged.db_buffer
               /\ database' = logged.database
               /\ mqtt_buffer' = sent.mqtt_buffer
               /\ published' = sent.published
       /\ UNCHANGED <<plotter_vars, bins_vars, subscriber_vars, logger_vars>>

PublisherNext ==
    \E sensor \in SensorOutcomes, db \in DbOutcomes, pub \in PublishOutcomes :
        Loop(sensor, db, pub)

PublisherSpec == Init /\ [][PublisherNext]_vars

\* ---- the bin count as a function of the module constants -----------------
\* values of FREQ_LIMIT, of FFT_BUFFER_SIZE or FFT_BUFFER_SIZE_LONG, and of
\* SAMPLE_RATE: those of the source, those of this model, and others
Limits == {1, 2, 50, 100, 250}
WindowSizes == {2, 4, 400, 4000, 24000}
Rates == {4, 400, 800}

NoBins == [freq_bins |-> 0, kept |-> 0]

\* the module constants are set and init_plot has not run yet
BinsInit ==
    /\ userdata = InitUserdata
    /\ clock = 0
    /\ pc = "idle"
    /\ handler = "main"
    /\ msg = Payload(FALSE, {}, {}, FALSE, NoValues)
    /\ key = ""
    /\ log = NoLog
    /\ sample_ids = [short |-> <<>>, long |-> <<>>]
    /\ fft_inputs = [short |-> <<>>, long |-> <<>>]
    /\ n_samples = 0
    /\ rejected = FALSE
    /\ pushed = [short |-> <<>>, long |-> <<>>]
    /\ sizes \in {[limit |-> f, size |-> n, rate |-> r] :
                     f \in Limits, n \in WindowSizes, r \in Rates}
    /\ bins = NoBins
    /\ PublisherStart
    /\ SubscriberStart
    /\ LoggerStart

\* lines 58 and 67-68 (and 274-277, 327-330): freq_bins is computed and a
\* spectrum is cut to it
ComputeBins ==
    /\ bins = NoBins
    /\ bins' = BinsOf(sizes)
    /\ UNCHANGED <<plotter_vars, sizes, publisher_vars,
                 subscriber_vars, logger_vars>>

BinsNext == ComputeBins

BinsSpec == BinsInit /\ [][BinsNext]_vars

\* ---- src/Subscriber.py: on_message (network thread) and animate ----------
\* compute_fft returns empty arrays for fewer samples (line 82: 10)
MIN_FFT_SAMPLES == 2

\* the payloads of the topic: not JSON, JSON that is no object, an object
\* without the four keys, and a reading
SubscriberMessages ==
    {[json |-> FALSE, dict |-> FALSE, fields |-> <<>>],
     [json |-> TRUE, dict |-> FALSE, fields |-> <<>>],
     [json |-> TRUE, dict |-> TRUE, fields |-> <<>>],
     [json |-> TRUE, dict |-> TRUE,
      fields |-> [timestamp |-> "t", x |-> 1, y |-> 5, z |-> 9]]}

\* data.get(k, default)
Get(d, k, default) == IF k \in DOMAIN d THEN d[k] ELSE default

\* list(range(n))
Range(n) == [i \in 1..n |-> i - 1]

\* compute_fft (lines 81-87); fft_freqs and fft_vals are each represented by
\* the numbers of their bins
compute_fft(series) ==
    IF Len(series) < MIN_FFT_SAMPLES THEN [xs |-> <<>>, ys |-> <<>>]
    ELSE [xs |-> Range(RfftLen(Len(series))),
          ys |-> Range(RfftLen(Len(series)))]

\* lines 35-36; a payload json.loads or data.get rejects ends the call at
\* lines 40-41
SubReceive(m) ==
    /\ net_pc = "idle"
    /\ IF m.json /\ m.dict
       THEN /\ net_data' = m.fields
            /\ timestamps' = DequeAppend(timestamps,
                                         Get(m.fields, "timestamp", ""),
                                         BUFFER_SIZE)
            /\ net_pc' = "x"
       ELSE UNCHANGED <<net_data, timestamps, net_pc>>
    /\ UNCHANGED <<x_values, y_values, z_values, anim_pc, xdata, lines,
                   plotter_vars, bins_vars, publisher_vars,
                   logger_vars>>

\* line 37
SubAppendX ==
    /\ net_pc = "x"
    /\ x_values' = DequeAppend(x_values, Get(net_data, "x", 0), BUFFER_SIZE)
    /\ net_pc' = "y"
    /\ UNCHANGED <<timestamps, y_values, z_values, net_data, anim_pc, xdata,
                   lines, plotter_vars, bins_vars, publisher_vars,
                   logger_vars>>

\* line 38
SubAppendY ==
    /\ net_pc = "y"
    /\ y_values' = DequeAppend(y_values, Get(net_data, "y", 0), BUFFER_SIZE)
    /\ net_pc' = "z"
    /\ UNCHANGED <<timestamps, x_values, z_values, net_data, anim_pc, xdata,
                   lines, plotter_vars, bins_vars, publisher_vars,
                   logger_vars>>

\* line 39, and the return of on_message
SubAppendZ ==
    /\ net_pc = "z"
    /\ z_values' = DequeAppend(z_values, Get(net_data, "z", 0), BUFFER_SIZE)
    /\ net_pc' = "idle"
    /\ UNCHANGED <<timestamps, x_values, y_values, net_data, anim_pc, xdata,
                   lines, plotter_vars, bins_vars, publisher_vars,
                   logger_vars>>

\* the statement of animate that follows the one at position p
AfterLine(p) ==
    CASE p = "idle" -> "xtime" [] p = "xtime" -> "ytime"
      [] p = "ytime" -> "ztime" [] p = "ztime" -> "xfft"
      [] p = "xfft" -> "yfft" [] p = "yfft" -> "zfft"
      [] p = "zfft" -> "return"

\* the deque a line shows
SeriesOf(l) ==
    CASE l \in {"xtime", "xfft"} -> x_values
      [] l \in {"ytime", "yfft"} -> y_values
      [] l \in {"ztime", "zfft"} -> z_values

\* line 101: FuncAnimation calls animate, which reads len(x_values)
AnimateRange ==
    /\ anim_pc = "idle"
    /\ xdata' = Range(Len(x_values))
    /\ anim_pc' = AfterLine(anim_pc)
    /\ UNCHANGED <<timestamps, x_values, y_values, z_values, net_pc,
                   net_data, lines, plotter_vars, bins_vars, publisher_vars,
                   logger_vars>>

\* lines 102, 103 and 104: set_data(xdata, list(deque))
AnimateSetData(l) ==
    /\ anim_pc = l
    /\ lines' = [lines EXCEPT ![l] = [xs |-> xdata, ys |-> SeriesOf(l)]]
    /\ anim_pc' = AfterLine(anim_pc)
    /\ UNCHANGED <<timestamps, x_values, y_values, z_values, net_pc,
                   net_data, xdata, plotter_vars, bins_vars, publisher_vars,
                   logger_vars>>

\* lines 107-109 with 111-113: compute_fft(deque) and the set_data of its
\* result
AnimateFft(l) ==
    /\ anim_pc = l
    /\ lines' = [lines EXCEPT ![l] = compute_fft(SeriesOf(l))]
    /\ anim_pc' = AfterLine(anim_pc)
    /\ UNCHANGED <<timestamps, x_values, y_values, z_values, net_pc,
                   net_data, xdata, plotter_vars, bins_vars, publisher_vars,
                   logger_vars>>

\* lines 116-120: the artists are returned, to be drawn with the data they
\* hold
AnimateReturn ==
    /\ anim_pc = "return"
    /\ anim_pc' = "idle"
    /\ UNCHANGED <<timestamps, x_values, y_values, z_values, net_pc,
                   net_data, xdata, lines, plotter_vars, bins_vars,
                   publisher_vars,
                   logger_vars>>

SubscriberNext ==
    \/ \E m \in SubscriberMessages : SubReceive(m)
    \/ SubAppendX
    \/ SubAppendY
    \/ SubAppendZ
    \/ AnimateRange
    \/ \E l \in TimeLines : AnimateSetData(l)
    \/ \E l \in FftLines : AnimateFft(l)
    \/ AnimateReturn

SubscriberSpec == Init /\ [][SubscriberNext]_vars

\* ---- src/code.py: main_loop (lines 76-115) --------------------------------
\* a statement raises an exception, or it does not
Outcomes == {"ok", "error"}

\* lines 78-83: a sample is read and appended; its timestamp is the number
\* of the reading.  A read that raises is handled at line 106.
LoggerRead(sensor) ==
    /\ main_pc = "read"
    /\ IF sensor.result = "sample"
       THEN LET row == <<Len(taken) + 1>> \o sensor.sample
            IN /\ Len(taken) < MaxSamples
               /\ main_buffer' = Append(main_buffer, row)
               /\ taken' = Append(taken, row)
               /\ main_pc' = "publish"
       ELSE /\ main_pc' = "error"
            /\ UNCHANGED <<main_buffer, taken>>
    /\ UNCHANGED <<acceleration, main_sent, plotter_vars, bins_vars,
                   publisher_vars, subscriber_vars>>

\* lines 85-93: the sample is published; a failure is printed (line 91)
LoggerPublish(outcome) ==
    /\ main_pc = "publish"
    /\ main_sent' = IF outcome = "ok"
                    THEN Append(main_sent, main_buffer[Len(main_buffer)])
                    ELSE main_sent
    /\ main_pc' = "insert"
    /\ UNCHANGED <<main_buffer, acceleration, taken, plotter_vars,
                   bins_vars, publisher_vars, subscriber_vars>>

\* lines 96-97: when 0.5 s have passed since last_commit_time the buffer is
\* inserted; an executemany that raises inserts no row
LoggerInsert(due, outcome) ==
    /\ main_pc = "insert"
    /\ IF due /\ main_buffer # <<>>
       THEN IF outcome = "ok"
            THEN /\ Len(acceleration.rows) + Len(acceleration.pending)
                        + Len(main_buffer) <= MaxRows
                 /\ acceleration' =
                        [acceleration EXCEPT !.pending = @ \o main_buffer]
                 /\ main_pc' = "commit"
            ELSE /\ main_pc' = "error"
                 /\ UNCHANGED acceleration
       ELSE /\ main_pc' = "sleep"
            /\ UNCHANGED acceleration
    /\ UNCHANGED <<main_buffer, main_sent, taken, plotter_vars, bins_vars,
                   publisher_vars, subscriber_vars>>

\* line 98
LoggerCommit(outcome) ==
    /\ main_pc = "commit"
    /\ IF outcome = "ok"
       THEN /\ acceleration' =
                  [rows |-> acceleration.rows \o acceleration.pending,
                   pending |-> <<>>]
            /\ main_pc' = "clear"
       ELSE /\ main_pc' = "error"
            /\ UNCHANGED acceleration
    /\ UNCHANGED <<main_buffer, main_sent, taken, plotter_vars, bins_vars,
                   publisher_vars, subscriber_vars>>

\* lines 99-100
LoggerClear ==
    /\ main_pc = "clear"
    /\ main_buffer' = <<>>
    /\ main_pc' = "sleep"
    /\ UNCHANGED <<acceleration, main_sent, taken, plotter_vars, bins_vars,
                   publisher_vars, subscriber_vars>>

\* line 102, and lines 106-108 after an exception
LoggerSleep ==
    /\ main_pc \in {"sleep", "error"}
    /\ main_pc' = "read"
    /\ UNCHANGED <<main_buffer, acceleration, main_sent, taken, plotter_vars,
                   bins_vars, publisher_vars, subscriber_vars>>

\* KeyboardInterrupt: raised in the try block it ends the loop (lines
\* 103-105); raised in the handler of lines 106-108 or after the loop it
\* ends main_loop
KeyboardInterrupt ==
    /\ main_pc \notin {"done", "crashed"}
    /\ main_pc' =
         IF main_pc \in {"read", "publish", "insert", "commit", "clear",
                         "sleep"}
         THEN "flush" ELSE "crashed"
    /\ UNCHANGED <<main_buffer, acceleration, main_sent, taken, plotter_vars,
                   bins_vars, publisher_vars, subscriber_vars>>

\* lines 111-112; an exception ends main_loop
LoggerFlush(outcome) ==
    /\ main_pc = "flush"
    /\ IF main_buffer # <<>>
       THEN IF outcome = "ok"
            THEN /\ Len(acceleration.rows) + Len(acceleration.pending)
                        + Len(main_buffer) <= MaxRows
                 /\ acceleration' =
                        [acceleration EXCEPT !.pending = @ \o main_buffer]
                 /\ main_pc' = "flush_commit"
            ELSE /\ main_pc' = "crashed"
                 /\ UNCHANGED acceleration
       ELSE /\ main_pc' = "close"
            /\ UNCHANGED acceleration
    /\ UNCHANGED <<main_buffer, main_sent, taken, plotter_vars, bins_vars,
                   publisher_vars, subscriber_vars>>

\* line 113
LoggerFlushCommit(outcome) ==
    /\ main_pc = "flush_commit"
    /\ IF outcome = "ok"
       THEN /\ acceleration' =
                  [rows |-> acceleration.rows \o acceleration.pending,
                   pending |-> <<>>]
            /\ main_pc' = "close"
       ELSE /\ main_pc' = "crashed"
            /\ UNCHANGED acceleration
    /\ UNCHANGED <<main_buffer, main_sent, taken, plotter_vars, bins_vars,
                   publisher_vars, subscriber_vars>>

\* line 115: closing the connection discards an open transaction
LoggerClose ==
    /\ main_pc = "close"
    /\ acceleration' = [acceleration EXCEPT !.pending = <<>>]
    /\ main_pc' = "done"
    /\ UNCHANGED <<main_buffer, main_sent, taken, plotter_vars, bins_vars,
                   publisher_vars, subscriber_vars>>

LoggerNext ==
    \/ \E sensor \in SensorOutcomes \ {[result |-> "wait", sample |-> <<>>]} :
          LoggerRead(sensor)
    \/ \E outcome \in Outcomes : LoggerPublish(outcome)
    \/ \E due \in BOOLEAN, outcome \in Outcomes : LoggerInsert(due, outcome)
    \/ \E outcome \in Outcomes : LoggerCommit(outcome)
    \/ LoggerClear
    \/ LoggerSleep
    \/ KeyboardInterrupt
    \/ \E outcome \in Outcomes : LoggerFlush(outcome)
    \/ \E outcome \in Outcomes : LoggerFlushCommit(outcome)
    \/ LoggerClose

LoggerSpec == Init /\ [][LoggerNext]_vars

\* ---- vocabulary of the properties ----------------------------------------
\* the step is a call of on_message: msg' is its message, clock' its start_time
MessageStep == handler' = "on_message"

\* the three values of m are lists of numbers
ListsOfNumbers(m) ==
    m.json /\ m.keys = Axis /\ m.lists = Axis /\ m.numeric

\* a batch as the data model defines it: three lists of one length > 0
EqualNonEmpty(m) ==
    /\ ListsOfNumbers(m)
    /\ Len(m.values["x"]) > 0
    /\ Len(m.values["y"]) = Len(m.values["x"])
    /\ Len(m.values["z"]) = Len(m.values["x"])

\* the message arrives less than the minimum interval after last_redraw
InsideInterval == clock' - userdata.last_redraw < MIN_REDRAW_INTERVAL

\* the engine state the claims list: windows, offsets, history, baseline, gate
Engine(ud) ==
    <<ud.data, ud.fft_buffer, ud.fft_buffer_long, ud.offset,
      ud.offsets_calculated, ud.heatmap_data, ud.baseline, ud.baseline_ready,
      ud.last_redraw>>

\* q is the number raw - off, off is the mean of values (no use of Rat or Sub)
IsDifference(q, raw, off) ==
    q[2] > 0 /\ q[1] * off[2] = (raw * off[2] - off[1]) * q[2]

IsMean(off, values) ==
    off[2] > 0 /\ off[1] * Len(values) = SumSeq(values) * off[2]

\* the number of entries of a raw window that come from a list of values
Kept(values) == Min(Len(values), RAW_PLOT_WINDOW)

\* the newest entries of the raw window dq are the values minus off
NewestAreDifferences(dq, values, off) ==
    \A i \in 1..Kept(values) :
        IsDifference(dq[Len(dq) - Kept(values) + i],
                     values[Len(values) - Kept(values) + i], off)

\* the newest entries of the raw window dq, one per value, are all zero
NewestAreZero(dq, values) ==
    \A i \in 1..Kept(values) : dq[Len(dq) - Kept(values) + i] = Zero

AllZero(s) == \A i \in 1..Len(s) : s[i] = Zero

\* ---- C1 ------------------------------------------------------------------
\* C1: a batch of three lists of numbers that do not all have the same
\* length, or that are empty, is discarded: the call ends before line 356
\* and leaves the windows, the offsets and their flag, the spectrogram
\* history, the baseline candidate and last_redraw as they were.
C1_InvalidLengthsDiscarded ==
    [][(MessageStep /\ ListsOfNumbers(msg') /\ ~EqualNonEmpty(msg'))
        => (Engine(userdata') = Engine(userdata) /\ pc' = "idle")]_vars

\* ---- C2 ------------------------------------------------------------------
\* C2: once offsets_calculated is true it stays true and the three offsets
\* never change, whatever on_message, on_key or line 356 do afterwards; the
\* offsets a message sets are the means of its lists, and every later
\* message that is processed puts into the raw windows its values minus
\* those offsets.
C2_OffsetsSetOnce ==
    [][/\ userdata.offsets_calculated
            => /\ userdata'.offsets_calculated
               /\ userdata'.offset = userdata.offset
       /\ (~userdata.offsets_calculated /\ userdata'.offsets_calculated)
            => \A a \in Axis : IsMean(userdata'.offset[a], msg'.values[a])
       /\ (MessageStep /\ pc' = "flush" /\ userdata.offsets_calculated)
            => \A a \in Axis :
                 NewestAreDifferences(userdata'.data[a], msg'.values[a],
                                      userdata.offset[a])]_vars

\* a processed message whose x mean differs from the offset set earlier
C2_Witness ==
    /\ handler = "on_message" /\ pc = "flush" /\ log = NoLog
    /\ userdata.offsets_calculated
    /\ Len(msg.values["x"]) > 0
    /\ ~IsMean(userdata.offset["x"], msg.values["x"])
    /\ userdata.offset["x"] # Zero

\* ---- C3 ------------------------------------------------------------------
\* C3 as claimed: the batch that calibrates puts into the raw windows its
\* values minus the means just computed.
C3_CalibratingBatchMinusMean ==
    [][(MessageStep /\ ~userdata.offsets_calculated
            /\ userdata'.offsets_calculated)
        => \A a \in Axis :
             NewestAreDifferences(userdata'.data[a], msg'.values[a],
                                  userdata'.offset[a])]_vars

\* C3 as amended: the batch that calibrates puts one zero per sample into
\* the raw windows and into the short and long FFT buffers (lines 233-235),
\* whatever its values are: never raw values, never values minus the mean
\* unless that difference is zero.
C3_CalibratingBatchAsZeros ==
    [][(MessageStep /\ ~userdata.offsets_calculated
            /\ userdata'.offsets_calculated)
        => /\ \A a \in Axis :
                /\ NewestAreZero(userdata'.data[a], msg'.values[a])
                /\ AllZero(userdata'.fft_buffer[a])
                /\ AllZero(userdata'.fft_buffer_long[a])
                /\ Len(userdata'.fft_buffer[a])
                     = (IF ZipLen(msg'.values) >= FFT_BUFFER_SIZE THEN 0
                        ELSE ZipLen(msg'.values))
                /\ Len(userdata'.fft_buffer_long[a])
                     = (IF ZipLen(msg'.values) >= FFT_BUFFER_SIZE_LONG THEN 0
                        ELSE ZipLen(msg'.values))
           /\ n_samples' = n_samples + ZipLen(msg'.values)]_vars

\* a calibrating batch whose x values differ from their mean has been handled
C3_Witness ==
    /\ handler = "on_message" /\ pc = "flush"
    /\ log.text = "Offsets calculated"
    /\ msg.values["x"] = <<1, 2>>
    /\ userdata.offset["x"] = <<3, 2>>

\* ---- C4 ------------------------------------------------------------------
\* every list of m has at least one number
AllNonEmpty(m) == \A a \in Axis : Len(m.values[a]) > 0

C5_GateAdmitsAndRecords ==
    [][/\ MessageStep => (pc' = "flush" <=> ~InsideInterval)
       /\ handler' = "return" => userdata'.last_redraw = clock
       /\ handler' # "return"
            => userdata'.last_redraw = userdata.last_redraw]_vars

\* C5 as amended: a message is admitted exactly when it arrives at least
\* MIN_REDRAW_INTERVAL after last_redraw and passes the checks of on_message
\* (three lists of numbers, none empty while uncalibrated); its arrival time
\* is recorded at line 356, a message that is turned away by the gate or by a
\* check leaves last_redraw unchanged, and two messages admitted one after
\* the other arrive at least MIN_REDRAW_INTERVAL apart.
C5_GateAdmitsCheckedBatches ==
    [][/\ MessageStep
            => (pc' = "flush"
                  <=> /\ ~InsideInterval
                      /\ ListsOfNumbers(msg')
                      /\ (userdata.offsets_calculated \/ AllNonEmpty(msg')))
       /\ handler' = "return"
            => /\ userdata'.last_redraw = clock
               /\ clock - userdata.last_redraw >= MIN_REDRAW_INTERVAL
       /\ handler' # "return"
            => userdata'.last_redraw = userdata.last_redraw]_vars

\* a message admitted exactly MIN_REDRAW_INTERVAL after the one before it
C5_Witness ==
    /\ handler = "on_message" /\ pc = "flush"
    /\ userdata.last_redraw > 0
    /\ clock - userdata.last_redraw = MIN_REDRAW_INTERVAL

\* ---- C6 ------------------------------------------------------------------
\* C6: a message that arrives less than MIN_REDRAW_INTERVAL after
\* last_redraw is dropped: userdata is unchanged (no sample in any window, no
\* calibration), nothing is logged, the call ends at line 208 and no sample
\* of it is counted among those the FFT buffers received.
C6_ThrottledBatchDropped ==
    [][(MessageStep /\ InsideInterval)
        => /\ userdata' = userdata
           /\ pc' = "idle"
           /\ log' = NoLog
           /\ n_samples' = n_samples
           /\ sample_ids' = sample_ids
           /\ fft_inputs' = fft_inputs]_vars

\* a structurally valid batch was dropped and the engine is still uncalibrated
C6_Witness ==
    /\ handler = "on_message" /\ pc = "idle"
    /\ clock - userdata.last_redraw < MIN_REDRAW_INTERVAL
    /\ EqualNonEmpty(msg)
    /\ ~userdata.offsets_calculated

\* ---- C7 ------------------------------------------------------------------
\* a JSON message with a missing field, a non-list field or a non-numeric
\* element
Invalid(m) == m.json /\ ~ListsOfNumbers(m)

\* C7 as claimed: an invalid message produces a warning whenever it arrives,
\* and a message dropped silently inside the interval is structurally valid.
C7_ValidationBeforeGate ==
    [][MessageStep
        => /\ Invalid(msg') => log'.level = "warning"
           /\ (InsideInterval /\ log' = NoLog) => EqualNonEmpty(msg')]_vars

\* C7 as amended: the gate precedes validation: an invalid message produces
\* its warning exactly when it arrives at least MIN_REDRAW_INTERVAL after
\* last_redraw; inside the interval every message, valid or not, is
\* discarded silently; an invalid message never changes userdata.
C7_GateBeforeValidation ==
    [][MessageStep
        => /\ Invalid(msg')
                => /\ log'.level = "warning" <=> ~InsideInterval
                   /\ userdata' = userdata
                   /\ pc' = "idle"
           /\ InsideInterval => (log' = NoLog /\ pc' = "idle")]_vars

\* an invalid message was discarded without a warning
C7_Witness ==
    /\ handler = "on_message" /\ pc = "idle"
    /\ Invalid(msg)
    /\ log = NoLog
    /\ clock - userdata.last_redraw < MIN_REDRAW_INTERVAL

\* ---- C8 ------------------------------------------------------------------
\* the message msg' is one on_message turns away: throttled, invalid JSON,
\* missing keys, non-list values, non-numeric elements, or an empty list in
\* the first message
TurnedAway ==
    \/ InsideInterval
    \/ ~msg'.json
    \/ Invalid(msg')
    \/ (~userdata.offsets_calculated /\ ~AllNonEmpty(msg'))

\* the length of an FFT buffer of capacity maxlen after n more samples
LenAfter(buffer, n, maxlen) ==
    IF Len(buffer) + n >= maxlen THEN 0 ELSE Len(buffer) + n

\* C8: a message that is turned away leaves userdata as it was and ends the
\* call, so that what the next call does is what it would have done without
\* it; and a structurally valid batch that arrives at least
\* MIN_REDRAW_INTERVAL after last_redraw is processed: its adjusted samples
\* are the newest entries of the raw windows and the FFT buffers have
\* received one sample per reading.
C8_EngineStaysLive ==
    [][MessageStep
        => /\ TurnedAway => (userdata' = userdata /\ pc' = "idle")
           /\ (EqualNonEmpty(msg') /\ ~InsideInterval)
                => /\ pc' = "flush"
                   /\ \A a \in Axis :
                        /\ IF userdata.offsets_calculated
                           THEN NewestAreDifferences(userdata'.data[a],
                                    msg'.values[a], userdata.offset[a])
                           ELSE NewestAreZero(userdata'.data[a],
                                              msg'.values[a])
                        /\ Len(userdata'.fft_buffer[a])
                             = LenAfter(userdata.fft_buffer[a],
                                        Len(msg'.values[a]), FFT_BUFFER_SIZE)
                        /\ Len(userdata'.fft_buffer_long[a])
                             = LenAfter(userdata.fft_buffer_long[a],
                                        Len(msg'.values[a]),
                                        FFT_BUFFER_SIZE_LONG)]_vars

\* a structurally valid batch is processed after a message was turned away,
\* with samples of earlier batches still in the long FFT buffer
C8_Witness ==
    /\ handler = "on_message" /\ pc = "flush"
    /\ rejected
    /\ EqualNonEmpty(msg)
    /\ log = NoLog
    /\ Len(userdata.fft_buffer_long["x"]) > Len(msg.values["x"])

\* ---- C9 ------------------------------------------------------------------
\* C9: each raw window never holds more than RAW_PLOT_WINDOW entries and,
\* being created with RAW_PLOT_WINDOW zeros, never holds fewer: its length is
\* RAW_PLOT_WINDOW in every state, whatever the lengths of the batches.
C9_RawWindowLength ==
    \A a \in Axis :
        /\ Len(userdata.data[a]) <= RAW_PLOT_WINDOW
        /\ Len(userdata.data[a]) >= RAW_PLOT_WINDOW

\* a batch of the greatest length was appended to the full raw windows
C9_Witness ==
    /\ handler = "on_message" /\ pc = "flush" /\ log = NoLog
    /\ Len(msg.values["x"]) = MaxLen
    /\ userdata.data["x"][RAW_PLOT_WINDOW] # Zero
    /\ userdata.data["y"][RAW_PLOT_WINDOW] # Zero

\* ---- C10 -----------------------------------------------------------------
\* no arrival number is in two blocks of the sequence
Disjoint(blocks) ==
    \A i, j \in 1..Len(blocks) :
        i # j => {blocks[i][k] : k \in 1..Len(blocks[i])}
                   \cap {blocks[j][k] : k \in 1..Len(blocks[j])} = {}

\* between two steps the FFT buffers are not full, they hold the samples the
\* history says, and no two spectra of one size were fed the same sample
BetweenBatches ==
    /\ \A a \in Axis :
        /\ Len(userdata.fft_buffer[a]) \in 0..(FFT_BUFFER_SIZE - 1)
        /\ Len(userdata.fft_buffer_long[a]) \in 0..(FFT_BUFFER_SIZE_LONG - 1)
        /\ Len(userdata.fft_buffer[a]) = Len(sample_ids.short)
        /\ Len(userdata.fft_buffer_long[a]) = Len(sample_ids.long)
    /\ Disjoint(fft_inputs.short)
    /\ Disjoint(fft_inputs.long)

\* the last n elements of s (all of s when it has fewer)
Newest(s, n) == SubSeq(s, Len(s) - Min(n, Len(s)) + 1, Len(s))

\* the spectrum of capacity maxlen computed from the samples of block
IsSpectrumOf(spectrum, block, maxlen) ==
    /\ Len(block) = maxlen
    /\ IF AllZero(block) THEN spectrum.input = <<>>
       ELSE spectrum.input = block /\ spectrum.scale = maxlen

\* C10: a batch that brings a short (long) FFT buffer to its capacity has
\* exactly one short (long) spectrum computed, from the newest
\* FFT_BUFFER_SIZE (FFT_BUFFER_SIZE_LONG) samples, and leaves the buffer
\* empty; a batch that does not, leaves the spectra as they were; hence
\* between batches each short buffer holds 0..FFT_BUFFER_SIZE-1 samples, each
\* long buffer 0..FFT_BUFFER_SIZE_LONG-1, and no sample was fed to two
\* spectra of the same size.
C10_BlockWindowing ==
    /\ BetweenBatches
    /\ [][/\ BetweenBatches'
          /\ (MessageStep /\ pc' = "flush")
                => LET n == ZipLen(msg'.values)
                       new == [a \in Axis |->
                                 SubSeq(Newest(userdata'.data[a],
                                               Len(msg'.values[a])), 1, n)]
                   IN
                   /\ IF Len(userdata.fft_buffer["x"]) + n >= FFT_BUFFER_SIZE
                      THEN /\ Len(fft_inputs'.short)
                                = Len(fft_inputs.short) + 1
                           /\ \A a \in Axis :
                                /\ userdata'.fft_buffer[a] = <<>>
                                /\ userdata'.heatmap_data[a]
                                     = Tail(userdata.heatmap_data[a])
                                         \o <<userdata'.line_fft[a]>>
                                /\ Len(msg'.values[a]) <= RAW_PLOT_WINDOW
                                     => IsSpectrumOf(userdata'.line_fft[a],
                                          Newest(userdata.fft_buffer[a]
                                                   \o new[a],
                                                 FFT_BUFFER_SIZE),
                                          FFT_BUFFER_SIZE)
                      ELSE /\ fft_inputs'.short = fft_inputs.short
                           /\ userdata'.line_fft = userdata.line_fft
                           /\ userdata'.heatmap_data = userdata.heatmap_data
                   /\ IF Len(userdata.fft_buffer_long["x"]) + n
                            >= FFT_BUFFER_SIZE_LONG
                      THEN /\ Len(fft_inputs'.long)
                                = Len(fft_inputs.long) + 1
                           /\ \A a \in Axis :
                                /\ userdata'.fft_buffer_long[a] = <<>>
                                /\ userdata'.baseline[a]
                                     = userdata'.line_fft_long[a]
                                /\ Len(msg'.values[a]) <= RAW_PLOT_WINDOW
                                     => IsSpectrumOf(
                                          userdata'.line_fft_long[a],
                                          Newest(userdata.fft_buffer_long[a]
                                                   \o new[a],
                                                 FFT_BUFFER_SIZE_LONG),
                                          FFT_BUFFER_SIZE_LONG)
                      ELSE /\ fft_inputs'.long = fft_inputs.long
                           /\ userdata'.line_fft_long
                                = userdata.line_fft_long
                           /\ userdata'.baseline = userdata.baseline]_vars

\* a second short spectrum and a first long spectrum have just been computed
\* from samples that are not all zero
C10_Witness ==
    /\ handler = "on_message" /\ pc = "flush"
    /\ Len(fft_inputs.short) >= 2
    /\ Len(fft_inputs.long) >= 1
    /\ userdata.fft_buffer["x"] = <<>>
    /\ userdata.fft_buffer_long["x"] = <<>>
    /\ userdata.line_fft["x"].input # <<>>
    /\ userdata.line_fft_long["x"].input # <<>>

\* ---- C11 -----------------------------------------------------------------
\* the newest n rows of the history are the newest n spectra computed, in the
\* order they were computed, and the rows before them are all-zero
HoldsNewest(heatmap, spectra, a) ==
    LET K == Len(heatmap)
        n == Min(Len(spectra), K)
    IN /\ \A i \in 1..(K - n) :
            heatmap[i] = ZeroSpectrum(FreqBins(FFT_BUFFER_SIZE))
       /\ \A i \in 1..n :
            heatmap[K - n + i] = spectra[Len(spectra) - n + i][a]

\* C11: the heatmap of every axis always has HEATMAP_STEPS rows; after n
\* 10s spectra were computed it holds the newest min(n, HEATMAP_STEPS) of
\* them in the order they were computed, after HEATMAP_STEPS - min(n,
\* HEATMAP_STEPS) all-zero rows; a step that computes a 10s spectrum drops
\* exactly the oldest row, moves every other row up by one and puts the new
\* spectrum last.
C11_HeatmapRolls ==
    /\ \A a \in Axis :
        /\ Len(userdata.heatmap_data[a]) = HEATMAP_STEPS
        /\ HoldsNewest(userdata.heatmap_data[a], pushed.short, a)
    /\ [][Len(pushed'.short) = Len(pushed.short) + 1
            => \A a \in Axis :
                /\ \A i \in 1..(HEATMAP_STEPS - 1) :
                     userdata'.heatmap_data[a][i]
                        = userdata.heatmap_data[a][i + 1]
                /\ userdata'.heatmap_data[a][HEATMAP_STEPS]
                     = pushed'.short[Len(pushed'.short)][a]]_vars
    /\ [][\A a \in Axis :
            /\ Len(userdata'.heatmap_data[a]) = HEATMAP_STEPS
            /\ HoldsNewest(userdata'.heatmap_data[a], pushed'.short, a)]_vars

\* HEATMAP_STEPS + 1 different spectra of x were computed: the first is no
\* longer a row, the others are the rows, in their order
C11_Witness ==
    /\ Len(pushed.short) = HEATMAP_STEPS + 1
    /\ \A i, j \in 1..Len(pushed.short) :
        i # j => pushed.short[i]["x"] # pushed.short[j]["x"]
    /\ \A i \in 1..HEATMAP_STEPS :
        /\ userdata.heatmap_data["x"][i] # pushed.short[1]["x"]
        /\ userdata.heatmap_data["x"][i] = pushed.short[i + 1]["x"]

\* ---- C12 -----------------------------------------------------------------
\* the step is the handling of the capture trigger: on_key with the space key
TriggerStep == handler' = "on_key" /\ key' = " "

\* the step is a call of on_message that computes a 60s spectrum
LongSpectrumStep ==
    MessageStep /\ Len(fft_inputs'.long) = Len(fft_inputs.long) + 1

\* C12 as claimed: baseline_ready turns from False to True only in a step
\* that handles the capture trigger after a 60s spectrum was computed; no
\* call of on_message turns it to True.
C12_ReadyOnlyOnTrigger ==
    [][(~userdata.baseline_ready /\ userdata'.baseline_ready)
          => (TriggerStep /\ Len(fft_inputs.long) >= 1)]_vars

\* C12 as the code has it: baseline_ready is False at the start, turns to
\* True exactly in the call of on_message that computes the first 60s
\* spectrum, is changed by no call of on_key and never returns to False.
C12_ReadyOnLongSpectrum ==
    /\ ~userdata.baseline_ready
    /\ [][/\ (~userdata.baseline_ready /\ userdata'.baseline_ready)
                => LongSpectrumStep
          /\ LongSpectrumStep => userdata'.baseline_ready
          /\ handler' = "on_key"
                => userdata'.baseline_ready = userdata.baseline_ready
          /\ userdata.baseline_ready => userdata'.baseline_ready]_vars

\* the first 60s spectrum was just computed and set the flag, though no key
\* was ever pressed
C12_Witness ==
    /\ handler = "on_message" /\ pc = "flush"
    /\ key = ""
    /\ Len(fft_inputs.long) = 1
    /\ userdata.fft_buffer_long["x"] = <<>>
    /\ userdata.baseline_ready

\* ---- C13 -----------------------------------------------------------------
\* no baseline yet: the stored and the drawn baseline of every axis are
\* all-zero and baseline_ready is False
NoBaseline(ud) ==
    /\ ~ud.baseline_ready
    /\ \A a \in Axis :
        /\ ud.baseline[a] = ZeroSpectrum(SpectrumLen(FFT_BUFFER_SIZE_LONG))
        /\ ud.line_baseline[a]
             = ZeroSpectrum(SpectrumLen(FFT_BUFFER_SIZE_LONG))

\* C13: as long as no 60s spectrum was computed there is no baseline,
\* whatever batches and key presses came before; a capture trigger handled
\* then changes nothing in userdata, emits the warning "No 60s FFT available
\* for baseline" and returns to canvas.flush_events() of the call of
\* on_message it interrupted.
C13_EarlyTriggerIsNoOp ==
    /\ NoBaseline(userdata)
    /\ [][/\ Len(fft_inputs'.long) = 0 => NoBaseline(userdata')
          /\ (TriggerStep /\ Len(fft_inputs.long) = 0)
                => /\ userdata' = userdata
                   /\ log' = Warning("No 60s FFT available for baseline")
                   /\ pc' = pc
                   /\ UNCHANGED <<clock, msg, sample_ids, fft_inputs,
                                  n_samples, pushed>>]_vars

\* a capture trigger was handled during the second batch, before any 60s
\* spectrum was computed, and was answered with the warning
C13_Witness ==
    /\ handler = "on_key" /\ key = " "
    /\ Len(fft_inputs.long) = 0
    /\ Len(pushed.short) >= 1
    /\ userdata.last_redraw > 0
    /\ log.level = "warning"
    /\ NoBaseline(userdata)

\* ---- C14 -----------------------------------------------------------------
\* the newest element of a non-empty sequence
Latest(s) == s[Len(s)]

\* C14: a capture trigger handled after at least one 60s spectrum was
\* computed sets the drawn baseline of every axis to the 60s spectrum of
\* that axis computed last, whatever was drawn before, changes nothing else
\* in userdata and reports "Baseline updated with latest 60s FFT".
C14_TriggerCapturesLatest ==
    [][(TriggerStep /\ Len(pushed.long) >= 1)
          => /\ \A a \in Axis :
                  userdata'.line_baseline[a] = Latest(pushed.long)[a]
             /\ userdata' = [userdata EXCEPT
                                !.line_baseline = userdata'.line_baseline]
             /\ log' = [level |-> "info",
                        text |-> "Baseline updated with latest 60s FFT"]]_vars

\* two different 60s spectra of x were computed and a capture trigger
\* handled after the second has drawn the second as baseline
C14_Witness ==
    /\ handler = "on_key" /\ key = " "
    /\ Len(pushed.long) = 2
    /\ pushed.long[1]["x"] # pushed.long[2]["x"]
    /\ pushed.long[1]["x"].input # <<>>
    /\ userdata.line_baseline["x"] = pushed.long[2]["x"]

\* ---- C15 -----------------------------------------------------------------
\* C15: the drawn baseline is all-zero at the start; no call of on_message
\* changes it, not even one that computes a 60s spectrum, nor does the
\* return from canvas.flush_events(); it changes only in a step that
\* handles the capture trigger while baseline_ready is True.
C15_NoCaptureWithoutTrigger ==
    /\ \A a \in Axis :
        userdata.line_baseline[a]
            = ZeroSpectrum(SpectrumLen(FFT_BUFFER_SIZE_LONG))
    /\ [][/\ (MessageStep \/ handler' = "return")
                => userdata'.line_baseline = userdata.line_baseline
          /\ userdata'.line_baseline # userdata.line_baseline
                => (TriggerStep /\ userdata.baseline_ready)]_vars

\* a 60s spectrum of x that is not all-zero was just computed and stored,
\* and the drawn baseline is still the all-zero one
C15_Witness ==
    /\ handler = "on_message" /\ pc = "flush"
    /\ Len(pushed.long) = 1
    /\ userdata.fft_buffer_long["x"] = <<>>
    /\ userdata.baseline["x"] = Latest(pushed.long)["x"]
    /\ userdata.baseline["x"].input # <<>>
    /\ userdata.line_baseline["x"]
         = ZeroSpectrum(SpectrumLen(FFT_BUFFER_SIZE_LONG))

\* ---- C16 -----------------------------------------------------------------
\* every sample in the raw deques, the drawn raw lines and the 10s buffers
\* is exactly zero
Silent(ud) ==
    \A a \in Axis : /\ AllZero(ud.data[a])
                    /\ AllZero(ud.line_raw[a])
                    /\ AllZero(ud.fft_buffer[a])

\* C16: when every batch holds the readings of a sensor at rest (x, y and z
\* at constant levels, the first batch calibrating), every entry of the raw
\* deques of the three axes is exactly zero at every point; no 10s spectrum
\* is computed while fewer than FFT_BUFFER_SIZE samples were appended; the
\* batch that brings the number of samples to FFT_BUFFER_SIZE has the first
\* 10s spectrum computed, from all-zero samples, and leaves the 10s buffers
\* empty.
C16_SilenceAtRest ==
    /\ Silent(userdata)
    /\ pushed.short = <<>>
    /\ [][/\ Silent(userdata')
          /\ n_samples' < FFT_BUFFER_SIZE
                => /\ pushed'.short = <<>>
                   /\ \A a \in Axis :
                        Len(userdata'.fft_buffer[a]) = n_samples'
          /\ (n_samples < FFT_BUFFER_SIZE /\ n_samples' >= FFT_BUFFER_SIZE)
                => /\ Len(pushed'.short) = 1
                   /\ \A a \in Axis :
                        /\ AllZero(Newest(userdata.fft_buffer[a]
                                            \o Newest(userdata'.data[a],
                                                      Len(msg'.values[a])),
                                          FFT_BUFFER_SIZE))
                        /\ userdata'.line_fft[a].input = <<>>
                        /\ userdata'.line_fft[a] = pushed'.short[1][a]
                        /\ userdata'.fft_buffer[a] = <<>>]_vars

\* FFT_BUFFER_SIZE batches of one reading each have been processed: the
\* last of them had the first 10s spectrum computed, the offsets are the
\* levels of the sensor at rest
C16_Witness ==
    /\ handler = "on_message" /\ pc = "flush"
    /\ msg = Still(1)
    /\ n_samples = FFT_BUFFER_SIZE
    /\ clock >= FFT_BUFFER_SIZE * MIN_REDRAW_INTERVAL
    /\ userdata.offset["x"] = Rat(2, 1)
    /\ userdata.offset["y"] = Rat(0 - 1, 1)
    /\ Len(pushed.short) = 1
    /\ userdata.fft_buffer["x"] = <<>>
    /\ Silent(userdata)

\* ---- C17 -----------------------------------------------------------------
\* the constants of the source for the 10s and the 60s spectrum
RealShort == [limit |-> 100, size |-> 4000, rate |-> 400]
RealLong == [limit |-> 100, size |-> 24000, rate |-> 400]

\* k is the number of the bins 0..k-1 whose frequency i*rate/size is not
\* above limit: bin k-1 is not above it, bin k is
LastBinAtLimit(k, s) ==
    /\ k >= 1
    /\ (k - 1) * s.rate <= s.limit * s.size
    /\ k * s.rate > s.limit * s.size

\* the frequency limit is not above half the sample rate, the highest
\* frequency rfft yields
BelowNyquist(s) == 2 * s.limit <= s.rate

FullyApplied ==
    /\ \A a \in Axis :
        /\ Len(userdata.fft_buffer[a]) = Len(sample_ids.short)
        /\ Len(userdata.fft_buffer_long[a]) = Len(sample_ids.long)
        /\ Len(userdata.fft_buffer[a]) < FFT_BUFFER_SIZE
        /\ Len(userdata.fft_buffer_long[a]) < FFT_BUFFER_SIZE_LONG
        /\ userdata.line_raw[a] = userdata.data[a]
        /\ pushed.short # <<>>
              => /\ userdata.line_fft[a] = Latest(pushed.short)[a]
                 /\ Latest(userdata.heatmap_data[a]) = Latest(pushed.short)[a]
        /\ pushed.long # <<>>
              => /\ userdata.line_fft_long[a] = Latest(pushed.long)[a]
                 /\ userdata.baseline[a] = Latest(pushed.long)[a]
    /\ Len(pushed.short) = Len(fft_inputs.short)
    /\ Len(pushed.long) = Len(fft_inputs.long)
    /\ userdata.baseline_ready <=> pushed.long # <<>>

\* C18: a call of on_message starts only when no call of on_message is in
\* progress; on_key runs only inside canvas.flush_events() of a call of
\* on_message, and then, as at the start of every call of on_message,
\* every sample received so far is fully worked in: on_key never sees a
\* batch half applied.
C18_Serialized ==
    [][/\ MessageStep => (pc = "idle" /\ FullyApplied)
       /\ handler' = "on_key"
            => (pc = "flush" /\ pc' = "flush" /\ FullyApplied
                /\ FullyApplied')]_vars

\* on_key captured the baseline inside the call of on_message that had
\* just computed a 10s and a 60s spectrum and cleared both buffers
C18_Witness ==
    /\ handler = "on_key" /\ key = " " /\ pc = "flush"
    /\ Len(fft_inputs.long) = 1
    /\ Len(fft_inputs.short) >= 1
    /\ sample_ids = [short |-> <<>>, long |-> <<>>]
    /\ n_samples >= FFT_BUFFER_SIZE_LONG
    /\ userdata.last_redraw < clock
    /\ FullyApplied

\* ---- C19 -----------------------------------------------------------------
\* the samples (x, y, z) a message holds, in its order
SamplesOf(m) ==
    [k \in 1..Len(m.values["x"]) |->
        <<m.values["x"][k], m.values["y"][k], m.values["z"][k]>>]

RECURSIVE Concat(_)
\* the sequences of a sequence, joined in order
Concat(seqs) ==
    IF seqs = <<>> THEN <<>>
    ELSE Head(seqs) \o Concat(Tail(seqs))

\* s is the beginning of t
IsPrefix(s, t) == Len(s) <= Len(t) /\ s = SubSeq(t, 1, Len(s))

\* C19: every published message holds exactly MQTT_SAMPLE_COUNT samples in
\* three lists of equal length; the table grows by blocks of exactly
\* DB_SAMPLE_COUNT rows; the samples read so far are, in the order they were
\* read and each once, the samples of the published messages followed by
\* those still waiting for their message; and the rows of the table are the
\* first samples read, in the order they were read and each at most once.
C19_EverySampleOnce ==
    /\ \A i \in 1..Len(published) :
        \A a \in Axis : Len(published[i].values[a]) = MQTT_SAMPLE_COUNT
    /\ Len(database.rows) % DB_SAMPLE_COUNT = 0
    /\ Concat([i \in 1..Len(published) |-> SamplesOf(published[i])])
            \o mqtt_buffer = readings
    /\ IsPrefix(database.rows, readings)

\* ---- C20 -----------------------------------------------------------------
\* n zeros
Zeros(n) == [i \in 1..n |-> Zero]

\* C20: when the offsets are not yet calculated and line 207 lets through a
\* batch of three lists of numbers of one length n > 0, the call leaves the
\* offsets calculated; the raw deque of every axis has taken up exactly n
\* zeros after what it held, and so have its 10s and its 60s buffer, a
\* buffer that became full having its spectrum computed from these zeros
\* and being cleared.
C20_CalibratingBatchAppendsZeros ==
    [][(MessageStep /\ ~userdata.offsets_calculated /\ ~InsideInterval
            /\ EqualNonEmpty(msg'))
        => LET n == Len(msg'.values["x"]) IN
           /\ userdata'.offsets_calculated
           /\ pc' = "flush"
           /\ n_samples' = n_samples + n
           /\ \A a \in Axis :
                LET short == Newest(userdata.fft_buffer[a] \o Zeros(n),
                                    FFT_BUFFER_SIZE)
                    long == Newest(userdata.fft_buffer_long[a] \o Zeros(n),
                                   FFT_BUFFER_SIZE_LONG)
                IN /\ userdata'.data[a]
                        = Newest(userdata.data[a] \o Zeros(n),
                                 RAW_PLOT_WINDOW)
                   /\ IF Len(short) >= FFT_BUFFER_SIZE
                      THEN /\ userdata'.fft_buffer[a] = <<>>
                           /\ userdata'.line_fft[a].input = <<>>
                           /\ Len(pushed'.short) = Len(pushed.short) + 1
                      ELSE /\ userdata'.fft_buffer[a] = short
                           /\ pushed'.short = pushed.short
                   /\ IF Len(long) >= FFT_BUFFER_SIZE_LONG
                      THEN /\ userdata'.fft_buffer_long[a] = <<>>
                           /\ userdata'.line_fft_long[a].input = <<>>
                           /\ Len(pushed'.long) = Len(pushed.long) + 1
                      ELSE /\ userdata'.fft_buffer_long[a] = long
                           /\ pushed'.long = pushed.long]_vars

\* the first batch let through had MaxLen readings per axis that are not
\* all alike: the 60s buffers hold one zero per reading and the offsets are
\* calculated
C20_Witness ==
    /\ handler = "on_message" /\ pc = "flush"
    /\ EqualNonEmpty(msg)
    /\ Len(msg.values["x"]) = MaxLen
    /\ msg.values["y"] = Ramp(MaxLen)
    /\ n_samples = MaxLen
    /\ userdata.offsets_calculated
    /\ userdata.last_redraw = 0
    /\ \A a \in Axis : userdata.fft_buffer_long[a] = Zeros(MaxLen)

\* ---- C21 -----------------------------------------------------------------
\* C21: the raw deque of every axis starts as RAW_PLOT_WINDOW zeros; a call
\* of on_message that processes a batch drops as many of the oldest entries
\* as the batch has values for that axis (all of them when it has more than
\* RAW_PLOT_WINDOW), keeps the others in their order and puts behind them,
\* in the order of the batch, its newest values minus the offset of the
\* axis (zeros for the batch that calibrates); nothing else changes a raw
\* deque, in particular no computation of a spectrum empties it.
C21_RawWindowHoldsNewest ==
    /\ \A a \in Axis : userdata.data[a] = Zeros(RAW_PLOT_WINDOW)
    /\ [][IF MessageStep /\ pc' = "flush"
          THEN \A a \in Axis :
                LET k == Kept(msg'.values[a]) IN
                /\ Len(userdata'.data[a]) = RAW_PLOT_WINDOW
                /\ \A i \in 1..(RAW_PLOT_WINDOW - k) :
                     userdata'.data[a][i] = userdata.data[a][i + k]
                /\ IF userdata.offsets_calculated
                   THEN NewestAreDifferences(userdata'.data[a],
                                             msg'.values[a],
                                             userdata.offset[a])
                   ELSE NewestAreZero(userdata'.data[a], msg'.values[a])
          ELSE userdata'.data = userdata.data]_vars

\* the batch after the calibrating one had a 10s spectrum computed and the
\* 10s buffers cleared, while the raw deque of x holds its two readings
\* behind a zero of the calibrating batch
C21_Witness ==
    /\ handler = "on_message" /\ pc = "flush" /\ log = NoLog
    /\ Len(pushed.short) >= 1
    /\ userdata.fft_buffer["x"] = <<>>
    /\ userdata.line_fft["x"].input # <<>>
    /\ userdata.data["x"][1] = Zero
    /\ userdata.data["x"][RAW_PLOT_WINDOW - 1] # Zero
    /\ userdata.data["x"][RAW_PLOT_WINDOW] # Zero

\* ---- C22 -----------------------------------------------------------------
\* len(freqs_long) of init_plot (line 68)
LongAxisLen ==
    BinsOf([limit |-> FREQ_LIMIT, size |-> FFT_BUFFER_SIZE_LONG,
            rate |-> SAMPLE_RATE]).kept

\* C22: with the constants the module is configured with, every row of the
\* heatmap of every axis and every 10s spectrum computed have freq_bins
\* bins, the number of columns init_plot gave the heatmap, which is also
\* the length of freqs; every 60s spectrum computed, the stored baseline,
\* the drawn baseline and the drawn 60s spectrum have as many bins as
\* freqs_long has frequencies.
C22_BinsMatch ==
    /\ bins.kept = bins.freq_bins
    /\ \A a \in Axis :
        /\ \A i \in 1..Len(userdata.heatmap_data[a]) :
            userdata.heatmap_data[a][i].bins = bins.freq_bins
        /\ \A i \in 1..Len(pushed.short) :
            pushed.short[i][a].bins = bins.freq_bins
        /\ userdata.line_fft[a].bins = bins.kept
        /\ \A i \in 1..Len(pushed.long) :
            pushed.long[i][a].bins = LongAxisLen
        /\ userdata.baseline[a].bins = LongAxisLen
        /\ userdata.line_baseline[a].bins = LongAxisLen
        /\ userdata.line_fft_long[a].bins = LongAxisLen

\* 10s spectra and a 60s spectrum of x that are not all-zero were computed,
\* the newest 10s spectrum is the last row of the heatmap and the 60s
\* spectrum was drawn as baseline
C22_Witness ==
    /\ Len(pushed.short) >= 2
    /\ Len(pushed.long) >= 1
    /\ Latest(pushed.short)["x"].input # <<>>
    /\ Latest(pushed.long)["x"].input # <<>>
    /\ Latest(userdata.heatmap_data["x"]) = Latest(pushed.short)["x"]
    /\ userdata.line_baseline["x"] = Latest(pushed.long)["x"]

\* ---- C23 -----------------------------------------------------------------
\* the 10s buffers of the three axes have one length, and so have the 60s
\* buffers
SameLengths(ud) ==
    \A a, b \in Axis :
        /\ Len(ud.fft_buffer[a]) = Len(ud.fft_buffer[b])
        /\ Len(ud.fft_buffer_long[a]) = Len(ud.fft_buffer_long[b])

\* C23: in every state the 10s buffers of x, y and z have the same length
\* and the 60s buffers of x, y and z have the same length, whatever the
\* lengths of the lists of a batch; so in every call of on_message the test
\* of the x buffer decides as the test of any axis would, and the axes have
\* their spectra computed and their buffers cleared in the same call, or
\* none has.
C23_AxesInStep ==
    /\ SameLengths(userdata)
    /\ [][/\ SameLengths(userdata')
          /\ \A a \in Axis :
                /\ IF Len(pushed'.short) = Len(pushed.short) + 1
                   THEN /\ userdata'.fft_buffer[a] = <<>>
                        /\ userdata'.heatmap_data[a]
                             = Tail(userdata.heatmap_data[a])
                                 \o <<userdata'.line_fft[a]>>
                   ELSE /\ userdata'.heatmap_data[a]
                             = userdata.heatmap_data[a]
                        /\ userdata'.line_fft[a] = userdata.line_fft[a]
                        /\ Len(userdata'.fft_buffer[a]) < FFT_BUFFER_SIZE
                /\ IF Len(pushed'.long) = Len(pushed.long) + 1
                   THEN userdata'.fft_buffer_long[a] = <<>>
                   ELSE /\ userdata'.line_fft_long[a]
                             = userdata.line_fft_long[a]
                        /\ Len(userdata'.fft_buffer_long[a])
                             < FFT_BUFFER_SIZE_LONG]_vars

\* a batch with fewer y readings than x readings was processed: the raw
\* deques took up different numbers of values, the 60s buffers the same
\* number
C23_Witness ==
    /\ handler = "on_message" /\ pc = "flush"
    /\ Len(msg.values["y"]) < Len(msg.values["x"])
    /\ Len(msg.values["y"]) > 0
    /\ Len(userdata.fft_buffer_long["x"]) > 0
    /\ SameLengths(userdata)

\* ---- C24 -----------------------------------------------------------------
\* the arrival numbers 1..n in their order
Stream(n) == [i \in 1..n |-> i]

\* C24: the samples appended to the 10s buffers so far are, in the order
\* they arrived and each once, the blocks the 10s spectra were computed
\* from followed by the samples still in the buffers; and the same for the
\* 60s buffers and spectra.
C24_NoSampleLost ==
    /\ Concat(fft_inputs.short) \o sample_ids.short = Stream(n_samples)
    /\ Concat(fft_inputs.long) \o sample_ids.long = Stream(n_samples)

\* ---- C25 -----------------------------------------------------------------
\* the arrival number of the newest sample a 60s spectrum was computed from,
\* 0 when there is no 60s spectrum yet
LastLongSample(inputs) ==
    IF inputs.long = <<>> THEN 0 ELSE Latest(Latest(inputs.long))

\* the number of 10s spectra computed after the last 60s spectrum
ShortSinceLong(inputs) ==
    Cardinality({i \in 1..Len(inputs.short) :
                    Latest(inputs.short[i]) > LastLongSample(inputs)})

\* the step is a call of on_message that computes a 10s spectrum
ShortSpectrumStep ==
    MessageStep /\ Len(fft_inputs'.short) = Len(fft_inputs.short) + 1

\* C25: with batches of one length that divides FFT_BUFFER_SIZE, every 60s
\* buffer holds as many samples as the 10s buffer plus FFT_BUFFER_SIZE for
\* each 10s spectrum computed since the last 60s spectrum; a 60s spectrum is
\* computed exactly in the calls that compute a 10s spectrum whose number
\* is a multiple of FFT_BUFFER_SIZE_LONG / FFT_BUFFER_SIZE; and at that
\* moment HEATMAP_STEPS 10s spectra were computed since the previous 60s
\* spectrum, which are the rows of the heatmap.
C25_LongEveryNthShort ==
    /\ [][\A a \in Axis :
            Len(userdata'.fft_buffer_long[a])
                = Len(userdata'.fft_buffer[a])
                    + FFT_BUFFER_SIZE * ShortSinceLong(fft_inputs')]_vars
    /\ [][LongSpectrumStep
            <=> /\ ShortSpectrumStep
                /\ (Len(fft_inputs'.short) * FFT_BUFFER_SIZE)
                        % FFT_BUFFER_SIZE_LONG = 0]_vars
    /\ [][LongSpectrumStep
            => /\ ShortSinceLong(fft_inputs) + 1 = HEATMAP_STEPS
               /\ \A a \in Axis : \A i \in 1..HEATMAP_STEPS :
                    userdata'.heatmap_data[a][i]
                        = pushed'.short[Len(pushed'.short)
                                            - HEATMAP_STEPS + i][a]]_vars

\* the second 60s spectrum has just been computed, after batches of one
\* sample or of FFT_BUFFER_SIZE samples
C25_Witness ==
    /\ Len(fft_inputs.long) = 2
    /\ Len(fft_inputs.short) = 2 * HEATMAP_STEPS
    /\ handler = "on_message"
    /\ sample_ids.long = <<>>

\* ---- C26 -----------------------------------------------------------------
\* the samples the sensor delivered in the step
NewReadings == SubSeq(readings', Len(readings) + 1, Len(readings'))

\* the step committed rows to the table; the step had a message accepted
Committed == database'.rows # database.rows
Accepted == published' # published

\* the samples that were read and are neither waiting for their message nor
\* in a published message
Unpublished(read, buffer, sent) ==
    Len(read) - Len(buffer) - MQTT_SAMPLE_COUNT * Len(sent)

\* C26: a turn of the loop that commits nothing leaves in db_buffer all it
\* held and the new sample, so the same block is first in line in the next
\* turn; db_buffer loses samples only in a turn that commits, and then
\* exactly the DB_SAMPLE_COUNT oldest, which are the newest rows; a turn in
\* which mqtt_buffer reaches MQTT_SAMPLE_COUNT removes these samples whether
\* or not the message was accepted, and when it was not, they are in no
\* message then or later; a failure on one path changes nothing on the other.
C26_FailurePaths ==
    /\ [][LET db == db_buffer \o NewReadings
              mqtt == mqtt_buffer \o NewReadings
          IN /\ ~Committed => db_buffer' = db
             /\ Committed
                  => /\ Len(db) >= DB_SAMPLE_COUNT
                     /\ db_buffer' = SubSeq(db, DB_SAMPLE_COUNT + 1, Len(db))
                     /\ Newest(database'.rows, DB_SAMPLE_COUNT)
                            = SubSeq(db, 1, DB_SAMPLE_COUNT)
             /\ Len(mqtt) < MQTT_SAMPLE_COUNT
                  => mqtt_buffer' = mqtt /\ ~Accepted
             /\ Len(mqtt) >= MQTT_SAMPLE_COUNT
                  => /\ mqtt_buffer'
                            = SubSeq(mqtt, MQTT_SAMPLE_COUNT + 1, Len(mqtt))
                     /\ Accepted
                          => /\ Len(published') = Len(published) + 1
                             /\ SamplesOf(Latest(published'))
                                    = SubSeq(mqtt, 1, MQTT_SAMPLE_COUNT)
                     /\ ~Accepted
                          => Unpublished(readings', mqtt_buffer', published')
                                = Unpublished(readings, mqtt_buffer,
                                              published)
                                    + MQTT_SAMPLE_COUNT]_vars
    /\ [][/\ Unpublished(readings', mqtt_buffer', published')
                >= Unpublished(readings, mqtt_buffer, published)
          /\ \A i \in 1..Len(published) : published'[i] = published[i]]_vars

\* a failed insert has left a full block in db_buffer, one message was
\* accepted and the samples of another were dropped after a failed publish
C26_Witness ==
    /\ Len(db_buffer) > DB_SAMPLE_COUNT
    /\ database.rows = <<>>
    /\ Len(published) = 1
    /\ Unpublished(readings, mqtt_buffer, published) = MQTT_SAMPLE_COUNT

\* ---- C27 -----------------------------------------------------------------
\* C27: in every frame animate hands over to be drawn, each time-domain line
\* has as many indices as values, and the X, Y and Z lines have the same
\* number of values.
C27_FramesAligned ==
    anim_pc = "return"
        => /\ \A l \in TimeLines : Len(lines[l].xs) = Len(lines[l].ys)
           /\ \A l, k \in TimeLines : Len(lines[l].ys) = Len(lines[k].ys)

\* ---- C28 -----------------------------------------------------------------
\* C28: the rows of the acceleration table are the first samples appended
\* to the buffer, in the order they arrived and each once; and once
\* main_loop has returned after a KeyboardInterrupt, they are all of them.
C28_InsertedOnce ==
    /\ IsPrefix(acceleration.rows, taken)
    /\ main_pc = "done" => acceleration.rows = taken

====
